---------------------------- MODULE Spec2Model ----------------------------
(***************************************************************************)
(* Model of qcodes/instrument_drivers/Keysight/keysightb1500/              *)
(* KeysightB1500_module.py: the two response parsers                       *)
(* (parse_module_query_response, parse_spot_measurement_response) and the  *)
(* relay operations of B1500Module (enable_outputs, disable_outputs,       *)
(* is_enabled).                                                            *)
(*                                                                         *)
(* A Python str is a sequence of one-character strings; None is the string *)
(* "None" (never a one-character string); a dict is a function.            *)
(***************************************************************************)
EXTENDS Integers, Sequences, FiniteSets, TLC

VARIABLES
    response,   \* the str handed to a parser, or the reply read by is_enabled
    parts,      \* how the generator composed `response` (read by the properties only)
    pc,         \* "call": the function is about to run; "done": it has returned or raised
    result,     \* what the call returned or raised
    channels,   \* B1500Module.channels
    slot_nr,    \* B1500Module.slot_nr
    relays,     \* the instrument: the set of channels whose output relay is closed
    written,    \* the instrument: the commands received, oldest first
    replies     \* the instrument: the number of replies read from it

vars == <<response, parts, pc, result, channels, slot_nr, relays, written, replies>>

None == "None"

(***************************************************************************)
(* Character classes of Python's re for the ASCII characters used here.    *)
(***************************************************************************)
Digits == {"0", "1", "2", "3", "4", "5", "6", "7", "8", "9"}

Letters == {"A", "B", "C", "D", "E", "L", "N", "V", "W", "X",
            "e", "h", "l", "o"}

\* \w
IsWord(c) == c \in Digits \cup Letters \cup {"_"}

\* \d
IsDigit(c) == c \in Digits

\* [+-]
IsSign(c) == c \in {"+", "-"}

\* The character of s at 1-based position i, or "" past either end.
At(s, i) == IF i >= 1 /\ i <= Len(s) THEN s[i] ELSE ""

\* The length of the longest run of characters of class `digit` (\d+) or
\* word (\w+) that starts at position i.
RECURSIVE DigitRun(_, _)
DigitRun(s, i) == IF IsDigit(At(s, i)) THEN 1 + DigitRun(s, i + 1) ELSE 0

RECURSIVE WordRun(_, _)
WordRun(s, i) == IF IsWord(At(s, i)) THEN 1 + WordRun(s, i + 1) ELSE 0

Max(S) == CHOOSE x \in S : \A y \in S : y <= x

(***************************************************************************)
(* parse_module_query_response                                             *)
(***************************************************************************)

NoMatch == [ok |-> FALSE, model |-> <<>>, revision |-> <<>>, end |-> 0]

\* Mutant: the model token written \w* instead of \w+.
ModelRevisionAtStar(s, j) ==
    LET lens == {k \in 0..WordRun(s, j) :
                    At(s, j + k) = "," /\ DigitRun(s, j + k + 1) >= 1}
    IN  IF lens = {} THEN NoMatch
        ELSE LET k == Max(lens)
                 d == DigitRun(s, j + k + 1)
             IN  [ok |-> TRUE,
                  model |-> SubSeq(s, j, j + k - 1),
                  revision |-> SubSeq(s, j + k + 1, j + k + d),
                  end |-> j + k + 1 + d]

\* (?P<model>\w+),(?P<revision>\d+) tried at position j.  \w+ is greedy: the
\* engine takes the longest run of word characters and gives characters
\* back until "," and a digit follow; \d+ then takes the whole digit run.
\* `end` is the position after the match.
ModelRevisionAt(s, j) ==
    LET lens == {k \in 1..WordRun(s, j) :
                    At(s, j + k) = "," /\ DigitRun(s, j + k + 1) >= 1}
    IN  IF lens = {} THEN NoMatch
        ELSE LET k == Max(lens)
                 d == DigitRun(s, j + k + 1)
             IN  [ok |-> TRUE,
                  model |-> SubSeq(s, j, j + k - 1),
                  revision |-> SubSeq(s, j + k + 1, j + k + d),
                  end |-> j + k + 1 + d]

\* The whole pattern ;?(?P<model>\w+),(?P<revision>\d+) tried at position i:
\* ;? first consumes a ";" if there is one, and gives it back if the rest
\* then fails.
PatternAt(s, i) ==
    IF At(s, i) = ";" /\ ModelRevisionAt(s, i + 1).ok
    THEN ModelRevisionAt(s, i + 1)
    ELSE ModelRevisionAt(s, i)

\* re.findall(pattern, response): scan from the left; a match is recorded as
\* its (model, revision) groups and the scan resumes where it ended; where
\* the pattern does not match the scan moves on by one character.
RECURSIVE FindAllFrom(_, _)
FindAllFrom(s, i) ==
    IF i > Len(s) THEN <<>>
    ELSE LET m == PatternAt(s, i)
         IN  IF m.ok
             THEN <<[model |-> m.model, revision |-> m.revision]>>
                      \o FindAllFrom(s, m.end)
             ELSE FindAllFrom(s, i + 1)

findall(s) == FindAllFrom(s, 1)

\* {}
EmptyDict == [k \in {} |-> <<>>]

\* constants.SlotNr applied to a slot number.
SlotNr(n) == n

\* The dict comprehension: enumerate(moduleinfo, start=1), keeping the
\* entries whose model is not "0".  `k` is the index of the next entry and
\* `slot` the number enumerate gives it.
RECURSIVE Comprehension(_, _, _, _)
Comprehension(moduleinfo, k, slot, acc) ==
    IF k > Len(moduleinfo) THEN acc
    ELSE IF moduleinfo[k].model # <<"0">>
         THEN Comprehension(moduleinfo, k + 1, slot + 1,
                            (SlotNr(slot) :> moduleinfo[k].model) @@ acc)
         ELSE Comprehension(moduleinfo, k + 1, slot + 1, acc)

\* Mutant: the "0" entries filtered out before the numbering.
RECURSIVE ComprehensionRenumbered(_, _, _, _)
ComprehensionRenumbered(moduleinfo, k, slot, acc) ==
    IF k > Len(moduleinfo) THEN acc
    ELSE IF moduleinfo[k].model # <<"0">>
         THEN ComprehensionRenumbered(moduleinfo, k + 1, slot + 1,
                            (SlotNr(slot) :> moduleinfo[k].model) @@ acc)
         ELSE ComprehensionRenumbered(moduleinfo, k + 1, slot, acc)

\* Mutant: the dict built from the renumbered entries.
ModuleDictRenumbered(moduleinfo) ==
    ComprehensionRenumbered(moduleinfo, 1, 1, EmptyDict)

ModuleDict(moduleinfo) == Comprehension(moduleinfo, 1, 1, EmptyDict)

\* The function has no raise of its own; its result is the dict.
parse_module_query_response(s) ==
    [raised |-> FALSE, exc |-> None, value |-> ModuleDict(findall(s))]

(***************************************************************************)
(* Inputs of the inventory parser: every string over InvAlphabet of at     *)
(* most MaxInvLen characters, and the documented example.                  *)
(***************************************************************************)
MaxInvLen == 6

InvAlphabet == {"A", "0", "1", ",", ";"}

InvExample == <<"A", ",", "1", ";", "0", ",", "2", ";", "B", ",", "3">>

InvInputs ==
    UNION {[1..n -> InvAlphabet] : n \in 0..MaxInvLen} \cup {InvExample}

InitInventory ==
    /\ response \in InvInputs
    /\ parts = <<>>
    /\ pc = "call"
    /\ result = None
    /\ channels = <<>>
    /\ slot_nr = 0
    /\ relays = {}
    /\ written = <<>>
    /\ replies = 0

ParseModuleQuery ==
    /\ pc = "call"
    /\ result' = parse_module_query_response(response)
    /\ pc' = "done"
    /\ UNCHANGED <<response, parts, channels, slot_nr, relays, written, replies>>

NextInventory == ParseModuleQuery

SpecInventory == InitInventory /\ [][NextInventory]_vars

(***************************************************************************)
(* C1: when parse_module_query_response has returned, its dict holds key k *)
(* exactly for the k-th match of the pattern whose model token is not "0", *)
(* mapped to that model token, and no other key: an entry after a dropped  *)
(* "0" entry keeps its position number.  "A,1;0,2;B,3" gives               *)
(* {1: "A", 3: "B"}.                                                       *)
(***************************************************************************)
C1_KeysArePositions ==
    pc = "done" =>
        LET m == findall(response)
            d == result.value
        IN  /\ DOMAIN d = {k \in 1..Len(m) : m[k].model # <<"0">>}
            /\ \A k \in DOMAIN d : d[k] = m[k].model
            /\ response = InvExample => d = (1 :> <<"A">>) @@ (3 :> <<"B">>)

\* A returned dict with a key that follows a dropped slot.
C1_Witness ==
    /\ pc = "done"
    /\ \E k \in DOMAIN result.value :
           \E j \in 1..k : j \notin DOMAIN result.value

\* The pattern occurs somewhere in s: a word character, a comma and a digit
\* in a row (the shortest text the pattern matches).
Occurs(s) ==
    \E j \in 1..Len(s) :
        IsWord(At(s, j - 1)) /\ s[j] = "," /\ IsDigit(At(s, j + 1))

(***************************************************************************)
(* C8: parse_module_query_response never raises, whatever the input (the   *)
(* empty string included), and returns the empty dict when the pattern     *)
(* occurs nowhere in the input.                                            *)
(***************************************************************************)
C8_NeverFails ==
    pc = "done" =>
        /\ ~result.raised
        /\ ~Occurs(response) => result.value = EmptyDict

\* An empty dict returned for a non-empty input with a comma and a digit in it.
C8_Witness ==
    /\ pc = "done"
    /\ ~result.raised
    /\ result.value = EmptyDict
    /\ ~Occurs(response)
    /\ \E i \in 1..Len(response) : response[i] = ","
    /\ \E i \in 1..Len(response) : IsDigit(response[i])

(***************************************************************************)
(* parse_spot_measurement_response                                         *)
(***************************************************************************)

\* The repetition counts of _pattern's value group:
\* [+-]\d{1,3}\.\d{3,6}E[+-]\d{2}
MinIntDigits == 1

MaxIntDigits == 3

MinFracDigits == 3

MaxFracDigits == 6

ExpDigits == 2

\* The prefix group: (\w)(\w)(\w)
PrefixLen == 3

\* The rest of the value group after n integer digits, tried with m
\* fractional digits: \. \d{m} E [+-] \d{2}, the sign being at position i.
ValueTail(s, i, n, m) ==
    LET d == i + n + 1      \* where the "." must be
        e == d + m + 1      \* where the "E" must be
    IN  /\ At(s, d) = "."
        /\ DigitRun(s, d + 1) >= m
        /\ At(s, e) = "E"
        /\ IsSign(At(s, e + 1))
        /\ DigitRun(s, e + 2) >= ExpDigits

\* The value group tried at position i.  \d{1,3} and \d{3,6} are greedy: the
\* engine tries the largest count first and gives digits back one by one, so
\* the match found is the one with the most integer digits and, for that
\* count, the most fractional digits.  `end` is the position after the match.
ValueAt(s, i) ==
    LET fracs(n) == {m \in MinFracDigits..MaxFracDigits : ValueTail(s, i, n, m)}
        ints == {n \in MinIntDigits..MaxIntDigits :
                    DigitRun(s, i + 1) >= n /\ fracs(n) # {}}
    IN  IF ~IsSign(At(s, i)) \/ ints = {}
        THEN [ok |-> FALSE, text |-> <<>>, end |-> 0]
        ELSE LET n == Max(ints)
                 m == Max(fracs(n))
                 end == i + n + m + ExpDigits + 4
             IN  [ok |-> TRUE, text |-> SubSeq(s, i, end - 1), end |-> end]

\* Mutant: the second and third group named the other way round.
PrefixGroupsSwapped(s, v) ==
    [ok |-> TRUE, status |-> s[1], chnr |-> s[3], dtype |-> s[2],
     value |-> v.text, end |-> v.end]

\* The groups of a match whose prefix group took part:
\* (?P<status>\w)(?P<chnr>\w)(?P<dtype>\w), then the value group's match v.
PrefixGroups(s, v) ==
    [ok |-> TRUE, status |-> s[1], chnr |-> s[2], dtype |-> s[3],
     value |-> v.text, end |-> v.end]

\* The groups of a match whose prefix group did not take part.
NoPrefixGroups(v) ==
    [ok |-> TRUE, status |-> None, chnr |-> None, dtype |-> None,
     value |-> v.text, end |-> v.end]

\* What re.match returns when the pattern does not match: None.
NoGroups ==
    [ok |-> FALSE, status |-> None, chnr |-> None, dtype |-> None,
     value |-> <<>>, end |-> 0]

\* _pattern tried at position i: the optional group first takes three word
\* characters, and is skipped if it cannot or if the value group then fails.
\* NoGroups when the pattern does not match at i.
PatternMatchAt(s, i) ==
    LET t == SubSeq(s, i, Len(s))
    IN  IF WordRun(t, 1) >= PrefixLen /\ ValueAt(t, PrefixLen + 1).ok
        THEN PrefixGroups(t, ValueAt(t, PrefixLen + 1))
        ELSE IF ValueAt(t, 1).ok
             THEN NoPrefixGroups(ValueAt(t, 1))
             ELSE NoGroups

\* Mutant: re.search, which tries every position from the left.
RECURSIVE SearchFrom(_, _)
SearchFrom(s, i) ==
    IF i > Len(s) + 1 THEN NoGroups
    ELSE IF PatternMatchAt(s, i).ok THEN PatternMatchAt(s, i)
         ELSE SearchFrom(s, i + 1)

search(s) == SearchFrom(s, 1)

\* Mutant: re.fullmatch, which also requires the match to end the string.
fullmatch(s) ==
    LET m == PatternMatchAt(s, 1)
    IN  IF m.ok /\ m.end = Len(s) + 1 THEN m ELSE NoGroups

\* Mutant: three optional groups (\w)?(\w)?(\w)? instead of one optional
\* group of three.
threeOptionals(s) ==
    LET ks == {k \in 0..PrefixLen : WordRun(s, 1) >= k /\ ValueAt(s, k + 1).ok}
        g(k, j) == IF j <= k THEN s[j] ELSE None
    IN  IF ks = {} THEN NoGroups
        ELSE LET k == Max(ks)
                 v == ValueAt(s, k + 1)
             IN  [ok |-> TRUE, status |-> g(k, 1), chnr |-> g(k, 2),
                  dtype |-> g(k, 3), value |-> v.text, end |-> v.end]

\* re.match(_pattern, response): the pattern tried at the start only.
match(s) == PatternMatchAt(s, 1)

DigitValue(c) == CHOOSE v \in 0..9 : <<"0", "1", "2", "3", "4", "5", "6", "7", "8", "9">>[v + 1] = c

\* int of a run of digits.
RECURSIVE NatOf(_)
NatOf(ds) ==
    IF ds = <<>> THEN 0
    ELSE 10 * NatOf(SubSeq(ds, 1, Len(ds) - 1)) + DigitValue(ds[Len(ds)])

\* The first position of character c in t.
IndexOf(t, c) == CHOOSE i \in 1..Len(t) : t[i] = c /\ \A j \in 1..(i - 1) : t[j] # c

\* mant * 10^exp with the trailing zeros of mant moved into exp, so that two
\* results are equal exactly when the numbers are.
RECURSIVE Normal(_, _)
Normal(mant, exp) ==
    IF mant = 0 THEN [mant |-> 0, exp |-> 0]
    ELSE IF mant % 10 = 0 THEN Normal(mant \div 10, exp + 1)
         ELSE [mant |-> mant, exp |-> exp]

\* float(t) for a text t of the value group's form: the number
\* (-1)^neg * mant * 10^exp.  The text has at most 9 significant digits and
\* a two-digit exponent, so two texts give the same float exactly when they
\* denote the same decimal number (and -0.0 keeps its sign).
float(t) ==
    LET dot == IndexOf(t, ".")
        e == IndexOf(t, "E")
        int == SubSeq(t, 2, dot - 1)
        frac == SubSeq(t, dot + 1, e - 1)
        ex == NatOf(SubSeq(t, e + 2, Len(t)))
        n == Normal(NatOf(int \o frac),
                    (IF t[e + 1] = "-" THEN 0 - ex ELSE ex) - Len(frac))
    IN  [neg |-> t[1] = "-", mant |-> n.mant, exp |-> n.exp]

\* The ValueError raised for a response that does not match: its message is
\* made of repr(response) and repr(_pattern).
NoMatchError(s) ==
    [type |-> "ValueError", response |-> s, pattern |-> "_pattern"]

parse_spot_measurement_response(s) ==
    LET m == match(s)
    IN  IF ~m.ok
        THEN [raised |-> TRUE, exc |-> NoMatchError(s), value |-> None]
        ELSE [raised |-> FALSE, exc |-> None,
              value |-> [status |-> m.status, chnr |-> m.chnr,
                         dtype |-> m.dtype, value |-> float(m.value)]]

(***************************************************************************)
(* Inputs of the spot measurement parser: a prefix of up to MaxPre word    *)
(* characters, then a numeric token that follows the value grammar or      *)
(* breaks it in one place (a part missing, or a digit run one shorter than *)
(* the grammar's least or up to Over longer than its most), then up to     *)
(* MaxTail more characters; and the documented examples.                   *)
(***************************************************************************)
MaxPre == 4

MaxTail == 1

Over == 1

PreChars == {"7", "_"}

TailChars == {"5"}

Strings(chars, n) == UNION {[1..k -> chars] : k \in 0..n}

\* A run of n digits: d, d+1, ... (mod 10).
Run(n, d) ==
    [i \in 1..n |-> <<"0", "1", "2", "3", "4", "5", "6", "7", "8", "9">>[((d + i - 1) % 10) + 1]]

Opt(present, c) == IF present THEN <<c>> ELSE <<>>

Shapes ==
    [sign : {"", "+", "-"},
     ni : (MinIntDigits - 1)..(MaxIntDigits + Over),
     dot : BOOLEAN,
     nf : (MinFracDigits - 1)..(MaxFracDigits + Over),
     e : BOOLEAN,
     esign : {"", "+", "-"},
     ne : (ExpDigits - 1)..ExpDigits]

\* The places where a shape breaks the value grammar.
Defects(sh) ==
    {d \in {"sign", "ni", "dot", "nf", "e", "esign", "ne"} :
        \/ d = "sign" /\ sh.sign = ""
        \/ d = "ni" /\ sh.ni \notin MinIntDigits..MaxIntDigits
        \/ d = "dot" /\ ~sh.dot
        \/ d = "nf" /\ sh.nf \notin MinFracDigits..MaxFracDigits
        \/ d = "e" /\ ~sh.e
        \/ d = "esign" /\ sh.esign = ""
        \/ d = "ne" /\ sh.ne # ExpDigits}

Token(sh) ==
    Opt(sh.sign # "", sh.sign) \o Run(sh.ni, 0) \o Opt(sh.dot, ".")
        \o Run(sh.nf, 8) \o Opt(sh.e, "E") \o Opt(sh.esign # "", sh.esign)
        \o Run(sh.ne, 0)

Generated ==
    {[pre |-> pre, token |-> Token(sh), tail |-> tail,
      wellformed |-> Defects(sh) = {}] :
        pre \in Strings(PreChars, MaxPre),
        sh \in {x \in Shapes : Cardinality(Defects(x)) <= 1},
        tail \in Strings(TailChars, MaxTail)}

ExampleWAV ==
    [pre |-> <<"W", "A", "V">>,
     token |-> <<"+", "0", "0", "1", ".", "2", "3", "4", "5", "E", "+", "0", "6">>,
     tail |-> <<>>, wellformed |-> TRUE]

ExampleNoPrefix ==
    [pre |-> <<>>,
     token |-> <<"-", "0", "0", "1", ".", "2", "3", "4", "E", "-", "0", "2">>,
     tail |-> <<>>, wellformed |-> TRUE]

ExampleHello ==
    [pre |-> <<"h", "e", "l", "l", "o">>, token |-> <<>>, tail |-> <<>>,
     wellformed |-> FALSE]

ExampleTail ==
    [pre |-> <<"_", "7", "_">>,
     token |-> <<"-", "0", ".", "0", "0", "0", "E", "+", "0", "0">>,
     tail |-> <<"X", "+">>, wellformed |-> TRUE]

SpotInputs ==
    Generated \cup {ExampleWAV, ExampleNoPrefix, ExampleHello, ExampleTail}

Compose(p) == p.pre \o p.token \o p.tail

InitSpot ==
    /\ parts \in SpotInputs
    /\ response = Compose(parts)
    /\ pc = "call"
    /\ result = None
    /\ channels = <<>>
    /\ slot_nr = 0
    /\ relays = {}
    /\ written = <<>>
    /\ replies = 0

ParseSpotMeasurement ==
    /\ pc = "call"
    /\ result' = parse_spot_measurement_response(response)
    /\ pc' = "done"
    /\ UNCHANGED <<response, parts, channels, slot_nr, relays, written, replies>>

NextSpot == ParseSpotMeasurement

SpecSpot == InitSpot /\ [][NextSpot]_vars

(***************************************************************************)
(* C2: for a response made of three word characters c1 c2 c3 and a numeric *)
(* token of the value grammar, parse_spot_measurement_response returns a   *)
(* record with status = c1, chnr = c2, dtype = c3, whatever the characters *)
(* (letters, digits, underscore), and value = float of exactly that token. *)
(* "WAV+001.2345E+06" gives W, A, V and 1234500.0 (12345 * 10^2).          *)
(***************************************************************************)
C2_PrefixSplitByPosition ==
    pc = "done" /\ parts.wellformed /\ Len(parts.pre) = PrefixLen /\ parts.tail = <<>> =>
        /\ ~result.raised
        /\ result.value.status = parts.pre[1]
        /\ result.value.chnr = parts.pre[2]
        /\ result.value.dtype = parts.pre[3]
        /\ result.value.value = float(parts.token)
        /\ parts = ExampleWAV =>
               result.value.value = [neg |-> FALSE, mant |-> 12345, exp |-> 2]

\* A record returned for a prefix of a digit, an underscore and a digit.
C2_Witness ==
    /\ pc = "done"
    /\ parts.wellformed
    /\ parts.tail = <<>>
    /\ parts.pre = <<"7", "_", "7">>
    /\ ~result.raised
    /\ result.value.chnr = "_"

\* s starts with a text of the grammar: an optional group of three word
\* characters, a sign, 1-3 digits, ".", 3-6 digits, "E", a sign, 2 digits.
StartsWithGrammar(s) ==
    \E k \in {0, 3}, n \in 1..3, m \in 3..6 :
        /\ \A i \in 1..k : IsWord(At(s, i))
        /\ IsSign(At(s, k + 1))
        /\ \A i \in 1..n : IsDigit(At(s, k + 1 + i))
        /\ At(s, k + n + 2) = "."
        /\ \A i \in 1..m : IsDigit(At(s, k + n + 2 + i))
        /\ At(s, k + n + m + 3) = "E"
        /\ IsSign(At(s, k + n + m + 4))
        /\ IsDigit(At(s, k + n + m + 5))
        /\ IsDigit(At(s, k + n + m + 6))

(***************************************************************************)
(* C5: parse_spot_measurement_response raises exactly when the response    *)
(* does not start with a text of the grammar; the error carries the        *)
(* response and the pattern, and no record is returned.  "hello" raises,   *)
(* and so does a prefix of 1, 2 or 4 word characters before the sign.      *)
(***************************************************************************)
C5_FailsExactlyOffGrammar ==
    pc = "done" =>
        /\ result.raised <=> ~StartsWithGrammar(response)
        /\ result.raised =>
               /\ result.exc = NoMatchError(response)
               /\ result.value = None
        /\ parts = ExampleHello => result.raised
        /\ Len(parts.pre) \in {1, 2, 4} /\ parts.wellformed => result.raised

\* A well-formed token after a prefix of four word characters has raised.
C5_Witness ==
    /\ pc = "done"
    /\ parts.wellformed
    /\ Len(parts.pre) = 4
    /\ result.raised
    /\ result.exc.response = response

(***************************************************************************)
(* C6: in every record parse_spot_measurement_response returns, status,    *)
(* chnr and dtype are all three present or all three None, and value is a  *)
(* number; without a prefix all three are None, and "-001.234E-02" gives   *)
(* the value -0.01234 (-1234 * 10^-5).                                     *)
(***************************************************************************)
C6_PrefixAllOrNothing ==
    pc = "done" /\ ~result.raised =>
        LET d == result.value
            absent == {f \in {"status", "chnr", "dtype"} : d[f] = None}
        IN  /\ Cardinality(absent) \in {0, 3}
            /\ DOMAIN d = {"status", "chnr", "dtype", "value"}
            /\ d.value \in [neg : BOOLEAN, mant : Nat, exp : Int]
            /\ parts.pre = <<>> /\ parts.wellformed => Cardinality(absent) = 3
            /\ parts = ExampleNoPrefix =>
                   d.value = [neg |-> TRUE, mant |-> 1234, exp |-> 0 - 5]

\* A record without prefix fields has been returned.
C6_Witness ==
    /\ pc = "done"
    /\ ~result.raised
    /\ parts.pre = <<>>
    /\ result.value.status = None
    /\ result.value.value.mant > 0

\* The strings appended to a response: up to MaxTrail characters.
MaxTrail == 2

TrailChars == {"5", "X"}

Trails == Strings(TrailChars, MaxTrail)

(***************************************************************************)
(* C7: when parse_spot_measurement_response succeeds on s, it succeeds on  *)
(* s followed by any t (also one that starts with digits) and returns the  *)
(* same status, chnr, dtype and value, from the same numeric token.        *)
(***************************************************************************)
C7_TrailingIgnored ==
    pc = "done" /\ ~result.raised =>
        \A t \in Trails :
            LET r == parse_spot_measurement_response(response \o t)
            IN  /\ ~r.raised
                /\ r.value = result.value
                /\ match(response \o t).value = match(response).value

\* A record returned for a response with a digit after its numeric token.
C7_Witness ==
    /\ pc = "done"
    /\ ~result.raised
    /\ parts.wellformed
    /\ parts.tail # <<>>
    /\ IsDigit(parts.tail[1])
    /\ result.value.value = float(parts.token)

(***************************************************************************)
(* B1500Module: enable_outputs, disable_outputs, is_enabled                *)
(***************************************************************************)

\* MessageBuilder().cn(channels).message: the close-relay command.
cn(chs) == [cmd |-> "CN", args |-> chs]

\* MessageBuilder().cl(channels).message: the open-relay command.
cl(chs) == [cmd |-> "CL", args |-> chs]

\* MessageBuilder().lrn_query(constants.LRN.Type.OUTPUT_SWITCH).message: the
\* output-switch status query.
lrn_query_output_switch == [cmd |-> "*LRN?", args |-> <<"OUTPUT_SWITCH">>]

\* set(seq)
SetOf(seq) == {seq[i] : i \in 1..Len(seq)}

\* The instrument's relays after it has received msg.
RelaysAfter(closed, msg) ==
    IF msg.cmd = "CN" THEN closed \cup SetOf(msg.args)
    ELSE IF msg.cmd = "CL" THEN closed \ SetOf(msg.args)
         ELSE closed

\* self.write(msg): one command goes to the instrument, which acts on it.
write(msg) ==
    /\ written' = Append(written, msg)
    /\ relays' = RelaysAfter(relays, msg)
    /\ replies' = replies

\* self.ask(msg): one command goes to the instrument and one reply is read.
ask(msg, reply) ==
    /\ written' = Append(written, msg)
    /\ relays' = RelaysAfter(relays, msg)
    /\ replies' = replies + 1
    /\ response' = reply

\* re.sub(r"[^,\d]", "", response)
IsCommaOrDigit(c) == c = "," \/ IsDigit(c)

sub(s) == SelectSeq(s, IsCommaOrDigit)

\* str.split(","): the segments between the commas, empty ones included;
\* "" gives [""].
RECURSIVE split(_)
split(s) ==
    IF \A i \in 1..Len(s) : s[i] # "," THEN <<s>>
    ELSE LET c == IndexOf(s, ",")
         IN  <<SubSeq(s, 1, c - 1)>> \o split(SubSeq(s, c + 1, Len(s)))

\* The ValueError of int(""): invalid literal for int() with base 10: ''.
IntError == [type |-> "ValueError", response |-> <<>>, pattern |-> "int"]

\* Variant: the empty segments skipped before the conversion
\* (int(x) for x in activated_channels if x != "").
subset_of_nonempty_ints(chs, activated_channels) ==
    [raised |-> FALSE, exc |-> None,
     value |-> SetOf(chs) \subseteq
                   {NatOf(activated_channels[i]) :
                        i \in {j \in 1..Len(activated_channels) :
                                   activated_channels[j] # <<>>}}]

\* set(self.channels).issubset(int(x) for x in activated_channels): issubset
\* consumes the whole generator, so int("") raises for an empty segment
\* wherever it stands.
subset_of_ints(chs, activated_channels) ==
    IF \E i \in 1..Len(activated_channels) : activated_channels[i] = <<>>
    THEN [raised |-> TRUE, exc |-> IntError, value |-> None]
    ELSE [raised |-> FALSE, exc |-> None,
          value |-> SetOf(chs) \subseteq
                        {NatOf(activated_channels[i]) :
                             i \in 1..Len(activated_channels)}]

\* What is_enabled makes of the reply to its query.
is_enabled_of(chs, reply) == subset_of_ints(chs, split(sub(reply)))

\* The number of commands the model lets a module send.
MaxCalls == 4

ReturnsNone == [raised |-> FALSE, exc |-> None, value |-> None]

\* Mutant: only the first channel's relay closed.
enable_outputs_first ==
    /\ Len(written) < MaxCalls
    /\ write(cn(<<channels[1]>>))
    /\ pc' = "enable_outputs"
    /\ result' = ReturnsNone
    /\ UNCHANGED <<response, parts, channels, slot_nr>>

enable_outputs ==
    /\ Len(written) < MaxCalls
    /\ write(cn(channels))
    /\ pc' = "enable_outputs"
    /\ result' = ReturnsNone
    /\ UNCHANGED <<response, parts, channels, slot_nr>>

disable_outputs ==
    /\ Len(written) < MaxCalls
    /\ write(cl(channels))
    /\ pc' = "disable_outputs"
    /\ result' = ReturnsNone
    /\ UNCHANGED <<response, parts, channels, slot_nr>>

\* is_enabled when the instrument answers the query with `reply`.
is_enabled(reply) ==
    /\ Len(written) < MaxCalls
    /\ ask(lrn_query_output_switch, reply)
    /\ pc' = "is_enabled"
    /\ result' = is_enabled_of(channels, reply)
    /\ UNCHANGED <<parts, channels, slot_nr>>

(***************************************************************************)
(* The modules: up to MaxChannels distinct channels of the instrument.     *)
(***************************************************************************)
MaxChannels == 2

AllChannels == {1, 2, 12}

SlotNumbers == {1, 2}

ChannelSeqs ==
    {cs \in UNION {[1..n -> AllChannels] : n \in 1..MaxChannels} :
        \A i, j \in 1..Len(cs) : i # j => cs[i] # cs[j]}

(***************************************************************************)
(* An instrument that may answer the status query with any text over       *)
(* StatusAlphabet of at most MaxStatusLen characters.                      *)
(***************************************************************************)
MaxStatusLen == 5

StatusAlphabet == {"1", "2", ",", "N"}

StatusResponses == Strings(StatusAlphabet, MaxStatusLen)

InitStatus ==
    /\ channels \in ChannelSeqs
    /\ slot_nr \in SlotNumbers
    /\ relays = {}
    /\ written = <<>>
    /\ replies = 0
    /\ response = <<>>
    /\ parts = <<>>
    /\ pc = "init"
    /\ result = None

\* One query, answered with any of the texts.
NextStatus == pc = "init" /\ \E reply \in StatusResponses : is_enabled(reply)

SpecStatus == InitStatus /\ [][NextStatus]_vars

(***************************************************************************)
(* A stub instrument that tracks its relays and reports the closed ones in *)
(* its answer to the status query: "CN" and the channel numbers separated  *)
(* by commas, or "CL" when every relay is open.                            *)
(***************************************************************************)

\* str(n) for a channel number.
RECURSIVE DecimalOf(_)
DecimalOf(n) ==
    IF n < 10 THEN Run(1, n) ELSE DecimalOf(n \div 10) \o Run(1, n % 10)

RECURSIVE JoinChannels(_)
JoinChannels(closed) ==
    IF closed = {} THEN <<>>
    ELSE LET c == CHOOSE x \in closed : \A y \in closed : x <= y
             rest == closed \ {c}
         IN  DecimalOf(c) \o (IF rest = {} THEN <<>> ELSE <<",">>)
                 \o JoinChannels(rest)

StubResponse(closed) ==
    IF closed = {} THEN <<"C", "L">>
    ELSE <<"C", "N">> \o JoinChannels(closed)

InitStub ==
    /\ channels \in ChannelSeqs
    /\ slot_nr \in SlotNumbers
    /\ relays \in SUBSET AllChannels
    /\ written = <<>>
    /\ replies = 0
    /\ response = <<>>
    /\ parts = <<>>
    /\ pc = "init"
    /\ result = None

NextStub ==
    \/ enable_outputs
    \/ disable_outputs
    \/ is_enabled(StubResponse(relays))

SpecStub == InitStub /\ [][NextStub]_vars

\* The channels a status response reports closed: the numbers written by
\* the segments that are left between the commas once every character that
\* is neither a digit nor a comma is deleted.  An empty segment writes no
\* number.
Reported(reply) ==
    LET kept == sub(reply)
        bounds == {0, Len(kept) + 1} \cup {i \in 1..Len(kept) : kept[i] = ","}
    IN  {NatOf(SubSeq(kept, a + 1, b - 1)) :
            <<a, b>> \in {x \in bounds \X bounds :
                             /\ x[1] + 1 < x[2]
                             /\ \A i \in (x[1] + 1)..(x[2] - 1) : kept[i] # ","}}

(***************************************************************************)
(* C3: is_enabled returns true if and only if every channel of the module  *)
(* is among the channels the status response reports (the response with    *)
(* all but digits and commas deleted, split on commas), for every response *)
(* and every channel sequence.                                             *)
(***************************************************************************)
C3_TrueIffAllReported ==
    pc = "is_enabled" =>
        /\ ~result.raised
        /\ result.value = (SetOf(channels) \subseteq Reported(response))

\* is_enabled has returned, for a response without an empty segment:
\* true iff every channel of the module is reported.
C3_ReturnsSubsetTest ==
    pc = "is_enabled" /\ ~result.raised =>
        result.value = (SetOf(channels) \subseteq Reported(response))

\* The filtered text of the reply has an empty segment: it is empty, or a
\* comma starts it, ends it or follows a comma.
HasEmptySegment(reply) ==
    LET kept == sub(reply)
    IN  \/ kept = <<>>
        \/ kept[1] = ","
        \/ kept[Len(kept)] = ","
        \/ \E i \in 1..(Len(kept) - 1) : kept[i] = "," /\ kept[i + 1] = ","

NoDigit(reply) == \A i \in 1..Len(reply) : ~IsDigit(reply[i])

(***************************************************************************)
(* C10: for a module with at least one channel, when the status response   *)
(* holds no digit, or its filtered text has an empty segment (a leading,   *)
(* trailing or doubled comma), is_enabled still returns the boolean of the *)
(* subset test (false when there is no digit) and does not raise.          *)
(***************************************************************************)
C10_EmptySegmentTolerated ==
    pc = "is_enabled" /\ Len(channels) >= 1
        /\ (NoDigit(response) \/ HasEmptySegment(response)) =>
        /\ ~result.raised
        /\ result.value = (SetOf(channels) \subseteq Reported(response))
        /\ NoDigit(response) => result.value = FALSE

\* What the code does there instead: it raises ValueError.
C10_RaisesOnEmptySegment ==
    pc = "is_enabled" =>
        (result.raised <=> HasEmptySegment(response))

\* The last relay command the module has sent, "" if none.
RECURSIVE LastRelayCommand(_)
LastRelayCommand(log) ==
    IF log = <<>> THEN ""
    ELSE IF log[Len(log)].cmd \in {"CN", "CL"} THEN log[Len(log)].cmd
         ELSE LastRelayCommand(SubSeq(log, 1, Len(log) - 1))

(***************************************************************************)
(* C4: against the stub instrument, after any sequence of enable_outputs   *)
(* and disable_outputs calls, is_enabled returns true exactly when the     *)
(* last of them was enable_outputs: true after enable_outputs, false after *)
(* a following disable_outputs.                                            *)
(***************************************************************************)
C4_RoundTrip ==
    pc = "is_enabled" /\ LastRelayCommand(written) # "" =>
        /\ ~result.raised
        /\ result.value = (LastRelayCommand(written) = "CN")

\* The half of the round trip the code keeps: true after enable_outputs.
C4_TrueAfterEnable ==
    pc = "is_enabled" /\ LastRelayCommand(written) = "CN" =>
        ~result.raised /\ result.value = TRUE

(***************************************************************************)
(* C9: each call of enable_outputs, disable_outputs or is_enabled sends    *)
(* exactly one command: enable_outputs the close-relay command and         *)
(* disable_outputs the open-relay command, each for the module's whole     *)
(* channel sequence, and is_enabled the output-switch status query, for    *)
(* which it reads exactly one reply; none changes channels or slot_nr.     *)
(***************************************************************************)
C9_OneCommandPerCall ==
    [][/\ channels' = channels
       /\ slot_nr' = slot_nr
       /\ Len(written') = Len(written) + 1
       /\ SubSeq(written', 1, Len(written)) = written
       /\ LET msg == written'[Len(written')]
          IN  /\ pc' \in {"enable_outputs", "disable_outputs", "is_enabled"}
              /\ pc' = "enable_outputs" =>
                     /\ msg = [cmd |-> "CN", args |-> channels]
                     /\ replies' = replies
              /\ pc' = "disable_outputs" =>
                     /\ msg = [cmd |-> "CL", args |-> channels]
                     /\ replies' = replies
              /\ pc' = "is_enabled" =>
                     /\ msg = [cmd |-> "*LRN?", args |-> <<"OUTPUT_SWITCH">>]
                     /\ replies' = replies + 1]_vars

\* A module of two channels has made all three calls.
C9_Witness ==
    /\ Len(channels) = 2
    /\ Len(written) = 3
    /\ {written[i].cmd : i \in 1..3} = {"CN", "CL", "*LRN?"}
    /\ replies = 1

=============================================================================
